---- MODULE Spec2Model ----
(***************************************************************************)
(* A model of the rav1e encoder core in src/src/lib.rs: the frame          *)
(* invariants, the uncompressed header writer, the transform-block         *)
(* pipeline, the two partition walkers and the frame driver.               *)
(***************************************************************************)
EXTENDS Integers, Sequences, FiniteSets, TLC

(***************************************************************************)
(* Bounds of the model.                                                    *)
(***************************************************************************)
\* FrameInvariants::new is explored for every width in 0..MaxWidth,
\* every height in 0..MaxHeight and every speed in 0..MaxSpeed.
MaxWidth == 136
MaxHeight == 72
MaxSpeed == 10

\* The quantizer indices the model draws from (a usize in the code).
QIndexSet == {0, 100, 255}

\* The frames whose header is written: dimensions on both sides of the 64
\* pixel tile threshold, two quantizers, speeds on both sides of the
\* reduced-tx-set threshold.
HdrWidths == {64, 130}
HdrHeights == {64, 70}
HdrQIndexSet == {100, 255}
HdrSpeeds == {1, 3}
HdrReferenceModes == {"SINGLE", "SELECT"}
\* At most this many references have a GlobalMVMode other than IDENTITY.
MaxNonIdentity == 1

\* The transform-block pipeline runs on planes of pixels 0..MaxPixel, and a
\* run writes coefficients to the ContextWriter at most MaxCoeffWrites times.
MaxPixel == 2
MaxCoeffWrites == 1
TxQIndexSet == {0, 100}
TxModes == {"DC_PRED", "V_PRED", "H_PRED"}
TxTypes == {"DCT_DCT", "ADST_DCT"}

\* The tiles the partition walkers encode: width, height and speed of the
\* frame.  Speed 0 selects the bottom-up walker.
WalkConfigs == { <<64, 64, 3>>, <<72, 64, 4>>, <<16, 16, 0>>, <<24, 16, 0>>, <<16, 24, 0>>, <<24, 16, 1>>, <<24, 24, 2>> }
WalkFrameTypes == {"KEY", "INTER"}
\* The outcomes rdo_mode_decision may report for a block: the modes, the
\* skip flag and the RD cost.
RdoCandidates ==
    { [pred_mode_luma |-> "DC_PRED", pred_mode_chroma |-> "DC_PRED", skip |-> TRUE, rd_cost |-> 1],
      [pred_mode_luma |-> "V_PRED", pred_mode_chroma |-> "DC_PRED", skip |-> FALSE, rd_cost |-> 5] }
\* The transform types rdo_tx_type_decision may return.
RdoTxTypes == {"DCT_DCT", "ADST_DCT"}

\* The frame driver is called at most MaxCalls times in a run.
MaxCalls == 2
\* What the caller of process_frame sets on the frame it passes, and what
\* the y4m decoder reports.
DrvFrameTypes == {"KEY", "INTER", "INTRA_ONLY"}
DrvColorspaces == {"C420jpeg", "C444"}
DrvBitDepths == {8, 10}

(***************************************************************************)
(* Arithmetic helpers.                                                     *)
(***************************************************************************)
RECURSIVE Pow2(_)
Pow2(n) == IF n = 0 THEN 1 ELSE 2 * Pow2(n - 1)

\* impl Fixed for usize.  `self & !((1 << n) - 1)` clears the low n bits.
floor_log2(self, n) == self - (self % Pow2(n))
\* A rounding that adds the whole unit: exact multiples are pushed up too.
ceil_log2_mut(self, n) == floor_log2(self + Pow2(n), n)
ceil_log2(self, n) == floor_log2(self + Pow2(n) - 1, n)
align_power_of_two(self, n) == ceil_log2(self, n)
align_power_of_two_and_shift(self, n) == (self + Pow2(n) - 1) \div Pow2(n)

(***************************************************************************)
(* Enumerations.                                                           *)
(***************************************************************************)
FrameTypes == {"KEY", "INTER", "INTRA_ONLY", "S"}
ReferenceModes == {"SINGLE", "COMPOUND", "SELECT"}
GlobalMVModes == {"IDENTITY", "TRANSLATION", "ROTZOOM", "AFFINE"}

\* The square block sizes the walkers use, in the order of the BlockSize enum.
BlockSizeOrder == <<"BLOCK_4X4", "BLOCK_8X8", "BLOCK_16X16", "BLOCK_32X32", "BLOCK_64X64">>
BlockSizes == {BlockSizeOrder[i] : i \in 1..Len(BlockSizeOrder)}
BlockSizeOrd(b) == CHOOSE i \in 1..Len(BlockSizeOrder) : BlockSizeOrder[i] = b
BsLt(a, b) == BlockSizeOrd(a) < BlockSizeOrd(b)
BsGe(a, b) == BlockSizeOrd(a) >= BlockSizeOrd(b)
BsGt(a, b) == BlockSizeOrd(a) > BlockSizeOrd(b)

LAST_FRAME == 1
ALTREF_FRAME == 7

(***************************************************************************)
(* FrameInvariants::new                                                    *)
(***************************************************************************)
\* The ladder with its first rung one speed too low.
min_partition_size_of_mut(speed) ==
    IF speed < 1 THEN "BLOCK_4X4"
    ELSE IF speed <= 2 THEN "BLOCK_8X8"
    ELSE IF speed <= 3 THEN "BLOCK_16X16"
    ELSE "BLOCK_32X32"

min_partition_size_of(speed) ==
    IF speed <= 1 THEN "BLOCK_4X4"
    ELSE IF speed <= 2 THEN "BLOCK_8X8"
    ELSE IF speed <= 3 THEN "BLOCK_16X16"
    ELSE "BLOCK_32X32"

FrameInvariantsNew(width, height, qindex, speed) ==
    [ qindex |-> qindex,
      speed |-> speed,
      width |-> width,
      height |-> height,
      padded_w |-> align_power_of_two(width, 3),
      padded_h |-> align_power_of_two(height, 3),
      sb_width |-> align_power_of_two_and_shift(width, 6),
      sb_height |-> align_power_of_two_and_shift(height, 6),
      w_in_b |-> 2 * align_power_of_two_and_shift(width, 3),
      h_in_b |-> 2 * align_power_of_two_and_shift(height, 3),
      number |-> 0,
      show_frame |-> TRUE,
      error_resilient |-> TRUE,
      intra_only |-> FALSE,
      allow_high_precision_mv |-> TRUE,
      frame_type |-> "KEY",
      show_existing_frame |-> FALSE,
      use_reduced_tx_set |-> (speed > 1),
      reference_mode |-> "SINGLE",
      use_prev_frame_mvs |-> FALSE,
      min_partition_size |-> min_partition_size_of(speed),
      globalmv_transformation_type |-> [i \in 0..ALTREF_FRAME |-> "IDENTITY"] ]

\* Sequence::new
SequenceNew == [profile |-> 0]

(***************************************************************************)
(* The uncompressed header writer.  A header is the sequence of the fields *)
(* written, each with its width in bits and its value; BitWriter<BE> emits *)
(* each field most significant bit first.                                  *)
(***************************************************************************)
F(name, bits, val) == [name |-> name, bits |-> bits, val |-> val]
Bit(name, b) == F(name, 1, IF b THEN 1 ELSE 0)

RECURSIVE BitLen(_)
BitLen(fields) ==
    IF fields = <<>> THEN 0 ELSE Head(fields).bits + BitLen(Tail(fields))

\* BitWriter::byte_align: zero bits up to the next byte boundary.
byte_align(fields) ==
    LET used == CHOOSE n \in {BitLen(fields) % 8} : TRUE
    IN  IF used = 0 THEN fields
        ELSE Append(fields, F("byte_align", 8 - used, 0))

\* The bits of one field, most significant first.
FieldBits(bits, val) == [j \in 1..bits |-> (val \div Pow2(bits - j)) % 2]

RECURSIVE HeaderBits(_)
HeaderBits(fields) ==
    IF fields = <<>> THEN <<>>
    ELSE FieldBits(Head(fields).bits, Head(fields).val) \o HeaderBits(Tail(fields))

\* The value of the k-th byte of a sequence of bits.
ByteAt(bits, k) ==
    LET b(j) == bits[8 * (k - 1) + j]
    IN  128 * b(1) + 64 * b(2) + 32 * b(3) + 16 * b(4) + 8 * b(5) + 4 * b(6) + 2 * b(7) + b(8)

\* The bytes a sequence of bits occupies in the packet (whole bytes only).
BitsToBytes(bits) == [k \in 1..(Len(bits) \div 8) |-> ByteAt(bits, k)]

HeaderBytes(fields) == BitsToBytes(HeaderBits(fields))

\* 32 - (n as u32).leading_zeros()
RECURSIVE BitWidth(_)
BitWidth(n) == IF n = 0 THEN 0 ELSE 1 + BitWidth(n \div 2)

\* BitWriter::write(bits, value) fails when the value does not fit.
Fits(f) == f.val >= 0 /\ f.val < Pow2(f.bits)

Ok(fields) == [status |-> "ok", fields |-> fields]
Abort(fields) == [status |-> "abort", fields |-> fields]

\* `fi.width as u32` keeps every width the model draws (all below 2^31).
width_bits(f) == BitWidth(f.width)
height_bits(f) == BitWidth(f.height)

\* The two assertions of write_frame_size, and the subtraction width_bits - 1.
frame_size_ok(f) ==
    /\ width_bits(f) <= 16 /\ height_bits(f) <= 16
    /\ width_bits(f) >= 1 /\ height_bits(f) >= 1

write_frame_size(f) ==
    << F("width_bits", 4, width_bits(f) - 1),
       F("height_bits", 4, height_bits(f) - 1),
       F("width", width_bits(f), (f.width - 1) % Pow2(16)),
       F("height", height_bits(f), (f.height - 1) % Pow2(16)) >>

write_sequence_header(f) ==
    write_frame_size(f) \o
    << F("frame_ids", 1, 0), F("screen_content_tools", 1, 0), F("screen_content_tools_off", 1, 0) >>

write_bitdepth_colorspace_sampling ==
    << F("bit_depth", 1, 0), F("monochrome", 1, 0), F("colorspace", 4, 0), F("color_range", 1, 0) >>

write_frame_setup ==
    << Bit("superres", FALSE), Bit("scaling_active", FALSE) >>

write_loop_filter ==
    << F("lf_level0", 6, 0), F("lf_level1", 6, 0), F("lf_sharpness", 3, 0), Bit("lf_deltas", FALSE) >>

write_cdef ==
    << F("cdef_damping", 2, 0), F("cdef_bits", 2, 0), F("cdef_y_strength", 6, 0), F("cdef_uv_strength", 6, 0) >>

\* BCodeWriter::write_s_refsubexpfin(n, 3, 0, 0): the value equals its
\* reference, so the sub-exponential code is one 0 bit and a 3-bit 0.
write_s_refsubexpfin(name, n) ==
    << Bit(name, FALSE), F(name, 3, 0) >>

\* One pass of the loop over LAST_FRAME..ALTREF_FRAME.
globalmv_fields(f, i) ==
    LET mode == f.globalmv_transformation_type[i]
        hp == IF f.allow_high_precision_mv THEN 1 ELSE 0
        bits == 12 - 6 + 3 - (1 - hp)
    IN  << Bit("gm_not_identity", mode # "IDENTITY") >> \o
        (IF mode # "IDENTITY" THEN << Bit("gm_rotzoom", mode = "ROTZOOM") >> ELSE <<>>) \o
        (IF mode # "IDENTITY" /\ mode # "ROTZOOM"
            THEN << Bit("gm_translation", mode = "TRANSLATION") >> ELSE <<>>) \o
        (IF mode = "TRANSLATION"
            THEN write_s_refsubexpfin("gm_mv_x", Pow2(bits) + 1) \o
                 write_s_refsubexpfin("gm_mv_y", Pow2(bits) + 1)
            ELSE <<>>)

\* The loop with the two unimplemented modes written like IDENTITY.
RECURSIVE globalmv_loop_mut(_, _, _)
globalmv_loop_mut(f, i, acc) ==
    IF i > ALTREF_FRAME THEN Ok(acc)
    ELSE globalmv_loop_mut(f, i + 1, acc \o globalmv_fields(f, i))

\* The loop runs until the first ROTZOOM or AFFINE reference, where
\* unimplemented!() panics.
RECURSIVE globalmv_loop(_, _, _)
globalmv_loop(f, i, acc) ==
    IF i > ALTREF_FRAME THEN Ok(acc)
    ELSE IF f.globalmv_transformation_type[i] \in {"ROTZOOM", "AFFINE"}
         THEN Abort(acc \o globalmv_fields(f, i))
         ELSE globalmv_loop(f, i + 1, acc \o globalmv_fields(f, i))

\* The inter branch with the frame setup written first and the interp
\* filter written before the high-precision-MV flag.
frame_info_fields_mut(f) ==
    IF f.frame_type = "KEY"
    THEN write_bitdepth_colorspace_sampling \o << F("separate_uv_delta_q", 1, 0) >> \o
         write_frame_setup
    ELSE IF f.intra_only
    THEN write_bitdepth_colorspace_sampling \o << F("separate_uv_delta_q", 1, 0) >> \o
         << F("refresh_frame_flags", 8, 0) >> \o write_frame_setup
    ELSE write_frame_setup \o
         << F("refresh_frame_flags", 8, 0) >> \o
         [i \in 1..7 |-> F("ref_frame", 3, 0)] \o
         << Bit("interp_filter_switchable", FALSE),
            F("interp_filter", 2, 0),
            Bit("allow_high_precision_mv", f.allow_high_precision_mv) >> \o
         (IF ~f.intra_only /\ ~f.error_resilient
             THEN << Bit("use_ref_frame_mvs", FALSE) >> ELSE <<>>)

\* Lines 430-454: the frame-type dependent part.
frame_info_fields(f) ==
    IF f.frame_type = "KEY"
    THEN write_bitdepth_colorspace_sampling \o << F("separate_uv_delta_q", 1, 0) >> \o
         write_frame_setup
    ELSE IF f.intra_only
    THEN write_bitdepth_colorspace_sampling \o << F("separate_uv_delta_q", 1, 0) >> \o
         << F("refresh_frame_flags", 8, 0) >> \o write_frame_setup
    ELSE << F("refresh_frame_flags", 8, 0) >> \o
         [i \in 1..7 |-> F("ref_frame", 3, 0)] \o
         write_frame_setup \o
         << Bit("allow_high_precision_mv", f.allow_high_precision_mv),
            Bit("interp_filter_switchable", FALSE),
            F("interp_filter", 2, 0) >> \o
         (IF ~f.intra_only /\ ~f.error_resilient
             THEN << Bit("use_ref_frame_mvs", FALSE) >> ELSE <<>>)

\* Lines 457-481.
quant_fields(f) ==
    << F("frame_context", 3, 0) >> \o write_loop_filter \o
    << F("qindex", 8, f.qindex % 256),
       Bit("y_dc_delta_q", FALSE), Bit("uv_dc_delta_q", FALSE), Bit("uv_ac_delta_q", FALSE),
       Bit("qm", FALSE), Bit("segmentation", FALSE), Bit("delta_q", FALSE) >> \o
    write_cdef \o
    << F("loop_restoration", 6, 0), Bit("tx_mode_select", FALSE) >> \o
    (IF ~f.intra_only THEN << Bit("inter_intra", FALSE) >> ELSE <<>>) \o
    (IF ~f.intra_only /\ f.reference_mode # "SINGLE"
        THEN << Bit("masked_compound", FALSE) >> ELSE <<>>) \o
    << Bit("reduced_tx_set", f.use_reduced_tx_set) >>

\* Lines 515-525.
tile_fields(f) ==
    << Bit("uniform_tile_spacing", TRUE) >> \o
    (IF f.width > 64 THEN << F("tile_cols", 1, 0) >> ELSE <<>>) \o
    (IF f.height > 64 THEN << F("tile_rows", 1, 0) >> ELSE <<>>) \o
    << F("tile_size_bytes", 2, 3) >>

write_uncompressed_header_mut(sequence, f) ==
    LET h0 == << F("frame_marker", 2, 2), F("profile", 2, sequence.profile) >>
        h1 == h0 \o << Bit("show_existing_frame", FALSE),
                       Bit("frame_type", f.frame_type = "INTER"),
                       Bit("show_frame", f.show_frame) >>
        h2 == h1 \o (IF f.frame_type # "KEY" /\ ~f.show_frame
                        THEN << Bit("intra_only", f.intra_only) >> ELSE <<>>)
                 \o << Bit("error_resilient", f.error_resilient) >>
        h3 == h2 \o (IF f.frame_type = "KEY" \/ f.intra_only
                        THEN write_sequence_header(f) ELSE <<>>)
        h4 == h3 \o << Bit("override_frame_size", FALSE) >> \o frame_info_fields(f)
                 \o quant_fields(f)
        gm == IF ~f.intra_only THEN globalmv_loop(f, LAST_FRAME, h4) ELSE Ok(h4)
    IN  IF ~Fits(h0[2]) THEN Abort(<<h0[1]>>)
        ELSE IF f.show_existing_frame
        THEN Ok(byte_align(h0 \o << Bit("show_existing_frame", TRUE), F("frame_to_show", 3, 0) >>))
        ELSE IF f.frame_type = "KEY" /\ ~f.intra_only
        THEN Abort(h1)
        ELSE IF f.frame_type # "KEY" /\ f.show_frame /\ f.intra_only
        THEN Abort(h1)
        ELSE IF (f.frame_type = "KEY" \/ f.intra_only) /\ ~frame_size_ok(f)
        THEN Abort(h2)
        ELSE IF gm.status = "abort" THEN gm
        ELSE Ok(byte_align(gm.fields \o tile_fields(f)))

write_uncompressed_header(sequence, f) ==
    LET h0 == << F("frame_marker", 2, 2), F("profile", 2, sequence.profile) >>
        h1 == h0 \o << Bit("show_existing_frame", FALSE),
                       Bit("frame_type", f.frame_type = "INTER"),
                       Bit("show_frame", f.show_frame) >>
        h2 == h1 \o (IF f.frame_type # "KEY" /\ ~f.show_frame
                        THEN << Bit("intra_only", f.intra_only) >> ELSE <<>>)
                 \o << Bit("error_resilient", f.error_resilient) >>
        h3 == h2 \o (IF f.frame_type = "KEY" \/ f.intra_only
                        THEN write_sequence_header(f) ELSE <<>>)
        h4 == h3 \o << Bit("override_frame_size", FALSE) >> \o frame_info_fields(f)
                 \o quant_fields(f)
        gm == IF ~f.intra_only THEN globalmv_loop(f, LAST_FRAME, h4) ELSE Ok(h4)
    IN  IF ~Fits(h0[2]) THEN Abort(<<h0[1]>>)
        ELSE IF f.show_existing_frame
        THEN Ok(byte_align(h0 \o << Bit("show_existing_frame", TRUE), F("frame_to_show", 3, 0) >>))
        ELSE IF (f.frame_type = "KEY" \/ f.frame_type = "INTRA_ONLY") /\ ~f.intra_only
        THEN Abort(h1)
        ELSE IF f.frame_type # "KEY" /\ f.show_frame /\ f.intra_only
        THEN Abort(h1)
        ELSE IF (f.frame_type = "KEY" \/ f.intra_only) /\ ~frame_size_ok(f)
        THEN Abort(h2)
        ELSE IF gm.status = "abort" THEN gm
        ELSE Ok(byte_align(gm.fields \o tile_fields(f)))

(***************************************************************************)
(* State.                                                                  *)
(***************************************************************************)
VARIABLES
    fi,        \* the FrameInvariants in use, or NoFI before construction
    made,      \* TRUE when fi is exactly what FrameInvariants::new returned
    header,    \* outcome of the last write_uncompressed_header call
    tx_input,  \* fs.input: per plane, the pixel of each 4x4 cell
    tx_rec,    \* fs.rec: per plane, the pixel of each 4x4 cell
    tx_cw,     \* the coefficient blocks written to the ContextWriter so far
    tx_call,   \* the last encode_tx_block call: arguments and kernels run
    y4m,       \* the y4m decoder: colorspace, bit depth, frames handed out
    last_rec,  \* Option<Frame>: the reconstruction kept between frames
    fs_rec,    \* fs.rec of the frame process_frame last worked on
    ivf,       \* the IVF frames written to output_file
    rec_file,  \* the frames written to the reconstruction sink, if any
    drv,       \* the driver: calls made, last return value, steps of the last call
    wk,        \* encode_tile: its position in the superblock loop
    stack,     \* the active calls of the partition walker, innermost last
    cw,        \* the ContextWriter: the committed syntax, block by block
    ev,        \* every ContextWriter operation of the last step, in order
    tile       \* the bytes encode_tile returned

hdrVars == <<fi, made, header>>
txVars == <<tx_input, tx_rec, tx_cw, tx_call>>
drvVars == <<y4m, last_rec, fs_rec, ivf, rec_file, drv>>
walkVars == <<wk, stack, cw, ev, tile>>
vars == <<fi, made, header, tx_input, tx_rec, tx_cw, tx_call,
          y4m, last_rec, fs_rec, ivf, rec_file, drv, wk, stack, cw, ev, tile>>

NoFI == [frame_type |-> "NONE"]
NoHeader == [status |-> "none", fields |-> <<>>]

(***************************************************************************)
(* Specification of the constructor alone: every call of                   *)
(* FrameInvariants::new within the bounds.                                 *)
(***************************************************************************)
New(width, height, qindex, speed) ==
    /\ fi = NoFI
    /\ fi' = FrameInvariantsNew(width, height, qindex, speed)
    /\ made' = TRUE
    /\ UNCHANGED <<header, txVars, drvVars, walkVars>>

NoCall == [p |-> 0, mode |-> "NONE", tx_size |-> "NONE", tx_type |-> "NONE",
           po |-> 0, skip |-> FALSE, pred |-> 0, steps |-> <<>>]
TxIdle ==
    /\ tx_input = <<>>
    /\ tx_rec = <<>>
    /\ tx_cw = 0
    /\ tx_call = NoCall

NoFrame == [present |-> FALSE, data |-> "none", input |-> 0]
DrvIdle ==
    /\ y4m = [colorspace |-> "C420jpeg", bits |-> 8, frames |-> 0, sink |-> FALSE]
    /\ last_rec = NoFrame
    /\ fs_rec = NoFrame
    /\ ivf = <<>>
    /\ rec_file = <<>>
    /\ drv = [calls |-> 0, ret |-> "none", steps |-> <<>>, status |-> "running"]

NoTile == [payload |-> <<>>, last |-> -1]

WalkIdle ==
    /\ wk = [status |-> "idle", sbx |-> 0, sby |-> 0]
    /\ stack = <<>>
    /\ cw = <<>>
    /\ ev = <<>>
    /\ tile = NoTile

InitNew ==
    /\ fi = NoFI
    /\ made = FALSE
    /\ header = NoHeader
    /\ TxIdle
    /\ DrvIdle
    /\ WalkIdle

NextNew ==
    /\ fi = NoFI
    /\ \E width \in 0..MaxWidth, height \in 0..MaxHeight, qindex \in QIndexSet, speed \in 0..MaxSpeed :
            New(width, height, qindex, speed)

SpecNew == InitNew /\ [][NextNew]_vars

(***************************************************************************)
(* Specification of the header writer: a frame is constructed, the caller  *)
(* assigns the public fields of FrameInvariants, and the header is         *)
(* written.                                                                *)
(***************************************************************************)
\* The arrays of GlobalMVMode with at most k entries that are not IDENTITY.
RECURSIVE GmArrays(_)
GmArrays(k) ==
    IF k = 0 THEN {[i \in 0..ALTREF_FRAME |-> "IDENTITY"]}
    ELSE {[a EXCEPT ![i] = m] : a \in GmArrays(k - 1), i \in 0..ALTREF_FRAME, m \in GlobalMVModes}

\* pub struct FrameInvariants: every field is public, so the caller may
\* assign the frame type, the flags, the reference mode and the global
\* motion types of a constructed value.
Configure ==
    /\ fi # NoFI
    /\ header = NoHeader
    /\ made
    /\ \E t \in FrameTypes, sf \in BOOLEAN, er \in BOOLEAN, io \in BOOLEAN,
          hp \in BOOLEAN, se \in BOOLEAN, rm \in HdrReferenceModes, gm \in GmArrays(MaxNonIdentity) :
            fi' = [fi EXCEPT !.frame_type = t, !.show_frame = sf, !.error_resilient = er,
                             !.intra_only = io, !.allow_high_precision_mv = hp,
                             !.show_existing_frame = se, !.reference_mode = rm,
                             !.globalmv_transformation_type = gm]
    /\ made' = FALSE
    /\ UNCHANGED <<header, txVars, drvVars, walkVars>>

WriteHeader ==
    /\ fi # NoFI
    /\ header = NoHeader
    /\ header' = write_uncompressed_header(SequenceNew, fi)
    /\ UNCHANGED <<fi, made, txVars, drvVars, walkVars>>

NextHeader ==
    \/ /\ fi = NoFI
       /\ \E width \in HdrWidths, height \in HdrHeights, qindex \in HdrQIndexSet, speed \in HdrSpeeds :
            New(width, height, qindex, speed)
    \/ Configure
    \/ WriteHeader

SpecHeader == InitNew /\ [][NextHeader]_vars

(***************************************************************************)
(* The transform-block pipeline, encode_tx_block.  A plane is a row of 4x4 *)
(* cells, each holding one pixel value: the luma plane of an 8 pixel wide  *)
(* frame has two cells, each chroma plane (4:2:0) has one.  TX_4X4 covers  *)
(* one cell and TX_8X8 two.  The kernels live outside lib.rs; they are     *)
(* modelled by their interface on one pixel per cell.                      *)
(***************************************************************************)
TxPlanes == 0..2
PlaneCells(p) == IF p = 0 THEN 2 ELSE 1
TxSizes == {"TX_4X4", "TX_8X8"}
TxCells(tx_size) == IF tx_size = "TX_4X4" THEN 1 ELSE 2
TxRegion(po, tx_size) == po..(po + TxCells(tx_size) - 1)

Clamp(v) == IF v < 0 THEN 0 ELSE IF v > MaxPixel THEN MaxPixel ELSE v
Base == MaxPixel \div 2

\* PredictionMode::predict: the value written to every cell of the block,
\* from the reconstructed neighbour on the left (no row above exists).
predict(mode, plane, po) ==
    CASE mode = "DC_PRED" -> IF po > 0 THEN plane[po] ELSE Base
      [] mode = "V_PRED" -> Clamp(Base - 1)
      [] mode = "H_PRED" -> IF po > 0 THEN plane[po] ELSE Clamp(Base + 1)

\* Kernel interfaces on one value: the forward transform scales by the
\* block width in cells times two, the quantizer divides by the step of the
\* qindex towards zero, the inverse transform undoes the scale rounding to
\* nearest.
TxScale(tx_size) == 2 * TxCells(tx_size)
QStep(qindex) == 1 + (qindex \div 50)
DivTowardsZero(a, b) == IF a >= 0 THEN a \div b ELSE -((-a) \div b)
forward_transform(residual, tx_size) == residual * TxScale(tx_size)
quantize_in_place(qindex, coeff) == DivTowardsZero(coeff, QStep(qindex))
dequantize(qindex, coeff) == coeff * QStep(qindex)
inverse_transform_add(rcoeff, pred, tx_size) ==
    Clamp(pred + DivTowardsZero(2 * rcoeff + (IF rcoeff >= 0 THEN 1 ELSE -1) * TxScale(tx_size),
                                2 * TxScale(tx_size)))

\* Planes are 1-indexed sequences of cells; po is the 0-based cell offset.
SetRegion(plane, po, tx_size, f(_)) ==
    [c \in 1..Len(plane) |-> IF (c - 1) \in TxRegion(po, tx_size) THEN f(c) ELSE plane[c]]

\* The pipeline with the early return on skip left out.
encode_tx_block_mut(p, mode, tx_size, tx_type, po, skip) ==
    LET pred == predict(mode, tx_rec[p + 1], po)
        predicted == SetRegion(tx_rec[p + 1], po, tx_size, LAMBDA c : pred)
        coeff(c) == quantize_in_place(fi.qindex,
                        forward_transform(tx_input[p + 1][c] - predicted[c], tx_size))
        recon == SetRegion(predicted, po, tx_size,
                     LAMBDA c : inverse_transform_add(dequantize(fi.qindex, coeff(c)), predicted[c], tx_size))
        args == [p |-> p, mode |-> mode, tx_size |-> tx_size, tx_type |-> tx_type,
                 po |-> po, skip |-> skip, pred |-> pred, steps |-> <<>>]
    IN  /\ tx_cw < MaxCoeffWrites
        /\ tx_rec' = [tx_rec EXCEPT ![p + 1] = recon]
        /\ tx_cw' = tx_cw + 1
        /\ tx_call' = [args EXCEPT !.steps =
               << "predict", "diff", "forward_transform", "quantize_in_place",
                  "write_coeffs_lv_map", "dequantize", "inverse_transform_add" >>]

encode_tx_block(p, mode, tx_size, tx_type, po, skip) ==
    LET pred == predict(mode, tx_rec[p + 1], po)
        predicted == SetRegion(tx_rec[p + 1], po, tx_size, LAMBDA c : pred)
        coeff(c) == quantize_in_place(fi.qindex,
                        forward_transform(tx_input[p + 1][c] - predicted[c], tx_size))
        recon == SetRegion(predicted, po, tx_size,
                     LAMBDA c : inverse_transform_add(dequantize(fi.qindex, coeff(c)), predicted[c], tx_size))
        args == [p |-> p, mode |-> mode, tx_size |-> tx_size, tx_type |-> tx_type,
                 po |-> po, skip |-> skip, pred |-> pred, steps |-> <<>>]
    IN  IF skip
        THEN /\ tx_rec' = [tx_rec EXCEPT ![p + 1] = predicted]
             /\ tx_call' = [args EXCEPT !.steps = << "predict" >>]
             /\ UNCHANGED tx_cw
        ELSE /\ tx_cw < MaxCoeffWrites
             /\ tx_rec' = [tx_rec EXCEPT ![p + 1] = recon]
             /\ tx_cw' = tx_cw + 1
             /\ tx_call' = [args EXCEPT !.steps =
                    << "predict", "diff", "forward_transform", "quantize_in_place",
                       "write_coeffs_lv_map", "dequantize", "inverse_transform_add" >>]

EncodeTxBlock ==
    /\ \E p \in TxPlanes, mode \in TxModes, tx_size \in TxSizes, tx_type \in TxTypes,
          skip \in BOOLEAN :
        \E po \in 0..(PlaneCells(p) - TxCells(tx_size)) :
            encode_tx_block(p, mode, tx_size, tx_type, po, skip)
    /\ UNCHANGED <<fi, made, header, tx_input, drvVars, walkVars>>

\* FrameState::new for an 8 pixel wide frame, and an input frame copied in.
InitTx ==
    /\ \E qindex \in TxQIndexSet : fi = FrameInvariantsNew(8, 4, qindex, 3)
    /\ made = TRUE
    /\ header = NoHeader
    /\ \E v \in 0..MaxPixel, w \in {0, MaxPixel} : tx_input = << <<v, w>>, <<v>>, <<w>> >>
    /\ tx_rec = << <<0, 0>>, <<0>>, <<0>> >>
    /\ tx_cw = 0
    /\ tx_call = NoCall
    /\ DrvIdle
    /\ WalkIdle

NextTx == EncodeTxBlock

SpecTx == InitTx /\ [][NextTx]_vars

(***************************************************************************)
(* The frame driver: encode_frame and process_frame.  A Frame is known by  *)
(* what its planes hold: nothing yet ("blank", Frame::new) or the          *)
(* reconstruction of the input frame with a given index.  The tile encoder *)
(* is the walker specified below; here it appears by its result, the       *)
(* entropy coder's bytes followed by the 0 byte, and the reconstruction it *)
(* leaves in fs.rec.                                                       *)
(***************************************************************************)
BlankFrame == [present |-> TRUE, data |-> "blank", input |-> 0]
ReconFrame(n) == [present |-> TRUE, data |-> "recon", input |-> n]

\* encode_tile: w.done() and the pushed 0.
encode_tile_bytes(n) == << [src |-> "ec", val |-> n], [src |-> "anti_emulation", val |-> 0] >>

\* encode_frame without the show_existing_frame branch: the tile encoder
\* always runs.
encode_frame_mut(sequence, f, n, last) ==
    LET hdr == CHOOSE h \in {write_uncompressed_header(sequence, f)} : TRUE
    IN  IF hdr.status = "abort"
        THEN [status |-> "abort", header |-> hdr, packet |-> [header |-> <<>>, tile |-> <<>>],
              rec |-> BlankFrame, steps |-> << "write_uncompressed_header" >>]
        ELSE [status |-> "ok", header |-> hdr,
              packet |-> [header |-> HeaderBytes(hdr.fields), tile |-> encode_tile_bytes(n)],
              rec |-> ReconFrame(n),
              steps |-> << "write_uncompressed_header", "encode_tile" >>]

\* encode_frame: the packet, fs.rec after the call and the calls made.
encode_frame(sequence, f, n, last) ==
    LET hdr == CHOOSE h \in {write_uncompressed_header(sequence, f)} : TRUE
    IN  IF hdr.status = "abort"
        THEN [status |-> "abort", header |-> hdr, packet |-> [header |-> <<>>, tile |-> <<>>],
              rec |-> BlankFrame, steps |-> << "write_uncompressed_header" >>]
        ELSE IF f.show_existing_frame
        THEN [status |-> "ok", header |-> hdr,
              packet |-> [header |-> HeaderBytes(hdr.fields), tile |-> <<>>],
              rec |-> IF last.present THEN [BlankFrame EXCEPT !.data = last.data, !.input = last.input]
                                      ELSE BlankFrame,
              steps |-> << "write_uncompressed_header" >> \o
                        (IF last.present THEN << "copy_last_rec" >> ELSE <<>>)]
        ELSE [status |-> "ok", header |-> hdr,
              packet |-> [header |-> HeaderBytes(hdr.fields), tile |-> encode_tile_bytes(n)],
              rec |-> ReconFrame(n),
              steps |-> << "write_uncompressed_header", "encode_tile" >>]

\* The fields the caller sets on the FrameInvariants it passes.
FrameFor(t, io, se, sf) ==
    [fi EXCEPT !.frame_type = t, !.intra_only = io, !.show_existing_frame = se,
               !.show_frame = sf, !.number = drv.calls]

Supported(csp) == csp \in {"C420", "C420jpeg", "C420paldv", "C420mpeg2"}

\* process_frame with an unsupported colorspace: panic before the read.
ProcessFrameBadColorspace ==
    /\ drv.status = "running" /\ drv.calls < MaxCalls
    /\ ~Supported(y4m.colorspace)
    /\ drv' = [drv EXCEPT !.calls = @ + 1, !.status = "aborted", !.ret = "none", !.steps = <<>>]
    /\ UNCHANGED <<fi, made, header, txVars, y4m, last_rec, fs_rec, ivf, rec_file, walkVars>>

\* process_frame when read_frame fails (end of input): returns false.
ProcessFrameReadFails ==
    /\ drv.status = "running" /\ drv.calls < MaxCalls
    /\ Supported(y4m.colorspace)
    /\ \E t \in DrvFrameTypes, io \in BOOLEAN, se \in BOOLEAN, sf \in BOOLEAN :
          fi' = FrameFor(t, io, se, sf)
    /\ made' = FALSE
    /\ drv' = [drv EXCEPT !.calls = @ + 1, !.ret = "false", !.steps = << "read_frame" >>]
    /\ UNCHANGED <<header, txVars, y4m, last_rec, fs_rec, ivf, rec_file, walkVars>>

\* process_frame without the final assignment to last_rec.
process_frame_mut(f) ==
    LET n == y4m.frames + 1
    IN  \E ef \in {encode_frame(SequenceNew, f, n, last_rec)} :
        /\ fi' = f
        /\ made' = FALSE
        /\ y4m' = [y4m EXCEPT !.frames = n]
        /\ header' = ef.header
        /\ IF ef.status = "abort"
           THEN /\ drv' = [drv EXCEPT !.calls = @ + 1, !.status = "aborted", !.ret = "none",
                                      !.steps = << "read_frame" >> \o ef.steps]
                /\ fs_rec' = BlankFrame
                /\ UNCHANGED <<last_rec, ivf, rec_file>>
           ELSE /\ ivf' = Append(ivf, [pts |-> f.number, data |-> ef.packet])
                /\ rec_file' = IF y4m.sink THEN Append(rec_file, ef.rec) ELSE rec_file
                /\ fs_rec' = ef.rec
                /\ UNCHANGED last_rec
                /\ drv' = [drv EXCEPT !.calls = @ + 1, !.ret = "true",
                              !.steps = << "read_frame" >> \o ef.steps \o << "write_ivf_frame" >> \o
                                        (IF y4m.sink THEN << "write_rec" >> ELSE <<>>)]

\* process_frame when a frame is read.
process_frame(f) ==
    LET n == y4m.frames + 1
    IN  \E ef \in {encode_frame(SequenceNew, f, n, last_rec)} :
        /\ fi' = f
        /\ made' = FALSE
        /\ y4m' = [y4m EXCEPT !.frames = n]
        /\ header' = ef.header
        /\ IF ~(y4m.bits \in {8, 10, 12})
           THEN /\ drv' = [drv EXCEPT !.calls = @ + 1, !.status = "aborted", !.ret = "none",
                                      !.steps = << "read_frame" >>]
                /\ UNCHANGED <<last_rec, fs_rec, ivf, rec_file>>
           ELSE IF ef.status = "abort"
           THEN /\ drv' = [drv EXCEPT !.calls = @ + 1, !.status = "aborted", !.ret = "none",
                                      !.steps = << "read_frame" >> \o ef.steps]
                /\ fs_rec' = BlankFrame
                /\ UNCHANGED <<last_rec, ivf, rec_file>>
           ELSE /\ ivf' = Append(ivf, [pts |-> f.number, data |-> ef.packet])
                /\ rec_file' = IF y4m.sink THEN Append(rec_file, ef.rec) ELSE rec_file
                /\ fs_rec' = ef.rec
                /\ last_rec' = ef.rec
                /\ drv' = [drv EXCEPT !.calls = @ + 1, !.ret = "true",
                              !.steps = << "read_frame" >> \o ef.steps \o << "write_ivf_frame" >> \o
                                        (IF y4m.sink THEN << "write_rec" >> ELSE <<>>) \o
                                        << "last_rec" >>]

ProcessFrameRead ==
    /\ drv.status = "running" /\ drv.calls < MaxCalls
    /\ Supported(y4m.colorspace)
    /\ \E t \in DrvFrameTypes, io \in BOOLEAN, se \in BOOLEAN, sf \in BOOLEAN :
          process_frame(FrameFor(t, io, se, sf))
    /\ UNCHANGED <<txVars, walkVars>>

InitFrame ==
    /\ \E width \in HdrWidths, speed \in HdrSpeeds : fi = FrameInvariantsNew(width, 64, 100, speed)
    /\ made = TRUE
    /\ header = NoHeader
    /\ TxIdle
    /\ \E csp \in DrvColorspaces, bits \in DrvBitDepths, sink \in BOOLEAN :
          y4m = [colorspace |-> csp, bits |-> bits, frames |-> 0, sink |-> sink]
    /\ last_rec = NoFrame
    /\ fs_rec = NoFrame
    /\ ivf = <<>>
    /\ rec_file = <<>>
    /\ drv = [calls |-> 0, ret |-> "none", steps |-> <<>>, status |-> "running"]
    /\ WalkIdle

NextFrame ==
    \/ ProcessFrameBadColorspace
    \/ ProcessFrameReadFails
    \/ ProcessFrameRead

SpecFrame == InitFrame /\ [][NextFrame]_vars

(***************************************************************************)
(* encode_tile and the two partition walkers.  The walkers recurse; the    *)
(* model keeps their active calls on a stack and takes one step per call   *)
(* entry, per recursive call made, and per return from a split block.      *)
(* partition.rs, rdo.rs and context.rs are not part of the sources at      *)
(* hand: block geometry, the RDO decisions and has_chroma follow the       *)
(* written specification, and an RDO decision is any of its outcomes.      *)
(***************************************************************************)
\* std::f64::MAX stands above every finite cost of the model; F64_INF is the
\* infinity that MAX + MAX rounds to.
F64_MAX == 1000000
F64_INF == F64_MAX + 1

\* f64 addition on the costs of the model: a finite cost is absorbed by MAX.
FAdd(a, b) ==
    IF a >= F64_MAX /\ b >= F64_MAX THEN F64_INF
    ELSE IF a >= F64_MAX THEN a
    ELSE IF b >= F64_MAX THEN b
    ELSE a + b

BO(x, y) == [x |-> x, y |-> y]

width_mi(bsize) == Pow2(BlockSizeOrd(bsize) - 1)

get_subsize(bsize, partition) ==
    IF partition = "PARTITION_NONE" THEN bsize
    ELSE IF bsize = "BLOCK_4X4" THEN "BLOCK_INVALID"
    ELSE BlockSizeOrder[BlockSizeOrd(bsize) - 1]

\* Always split if the current partition is too large.
must_split_mut(f, bsize, bo) ==
    \/ bo.x + width_mi(bsize) > f.w_in_b
    \/ bo.y + width_mi(bsize) > f.h_in_b

must_split_rows_mut(f, bsize, bo) ==
    \/ bo.x + width_mi(bsize) > f.w_in_b
    \/ BsGe(bsize, "BLOCK_64X64")

must_split(f, bsize, bo) ==
    \/ bo.x + width_mi(bsize) > f.w_in_b
    \/ bo.y + width_mi(bsize) > f.h_in_b
    \/ BsGe(bsize, "BLOCK_64X64")

\* The four quadrants of a split block, in the order the walkers visit them.
QuadOffsets_mut(bo, hbs) ==
    << bo, BO(bo.x, bo.y + hbs), BO(bo.x + hbs, bo.y), BO(bo.x + hbs, bo.y + hbs) >>

QuadOffsets(bo, hbs) ==
    << bo, BO(bo.x + hbs, bo.y), BO(bo.x, bo.y + hbs), BO(bo.x + hbs, bo.y + hbs) >>

DefaultDecision(bo) ==
    [rd_cost |-> F64_MAX, bo |-> bo, pred_mode_luma |-> "DC_PRED",
     pred_mode_chroma |-> "DC_PRED", skip |-> FALSE]

DefaultOutput ==
    [part_type |-> "PARTITION_INVALID", rd_cost |-> F64_MAX, part_modes |-> <<>>]

\* rdo_mode_decision(..).part_modes[0]: one outcome per candidate.
rdo_mode_decision(bsize, bo) ==
    { [rd_cost |-> c.rd_cost, bo |-> bo, pred_mode_luma |-> c.pred_mode_luma,
       pred_mode_chroma |-> c.pred_mode_chroma, skip |-> c.skip] : c \in RdoCandidates }

\* rdo_partition_decision: PARTITION_NONE against PARTITION_SPLIT into four
\* sub-blocks; the lower cost wins and the first candidate wins a tie.  A
\* cached NONE decision is reused instead of being searched again.
rdo_partition_decision(f, bsize, bo, cached) ==
    LET subsize == get_subsize(bsize, "PARTITION_SPLIT")
        offs == QuadOffsets(bo, width_mi(bsize) \div 2)
        none_modes == IF cached.part_modes # <<>>
                      THEN { cached.part_modes[1] }
                      ELSE rdo_mode_decision(bsize, bo)
        split_modes == { <<a, b, c, d>> :
                            a \in rdo_mode_decision(subsize, offs[1]),
                            b \in rdo_mode_decision(subsize, offs[2]),
                            c \in rdo_mode_decision(subsize, offs[3]),
                            d \in rdo_mode_decision(subsize, offs[4]) }
        SplitCost(s) == s[1].rd_cost + s[2].rd_cost + s[3].rd_cost + s[4].rd_cost
    IN  { IF SplitCost(s) < n.rd_cost
          THEN [part_type |-> "PARTITION_SPLIT", rd_cost |-> SplitCost(s), part_modes |-> s]
          ELSE [part_type |-> "PARTITION_NONE", rd_cost |-> n.rd_cost, part_modes |-> <<n>>]
          : n \in none_modes, s \in split_modes }

\* The directional intra modes.
DirectionalModes ==
    {"D45_PRED", "D135_PRED", "D117_PRED", "D153_PRED", "D207_PRED", "D63_PRED"}
is_directional(mode) == mode \in DirectionalModes

\* 4:2:0: both chroma planes are decimated by one in each direction.
xdec == 1
ydec == 1

has_chroma(bo, bsize, xd, yd) ==
    /\ (bo.x % 2 = 1 \/ width_mi(bsize) % 2 = 0 \/ xd = 0)
    /\ (bo.y % 2 = 1 \/ width_mi(bsize) % 2 = 0 \/ yd = 0)

\* TX_MODE_LARGEST.
TxSizeOf_mut(bsize) ==
    CASE bsize = "BLOCK_4X4" -> "TX_4X4"
      [] bsize = "BLOCK_8X8" -> "TX_8X8"
      [] OTHER -> "TX_16X16"

TxSizeOf(bsize) ==
    CASE bsize = "BLOCK_4X4" -> "TX_4X4"
      [] bsize = "BLOCK_8X8" -> "TX_8X8"
      [] bsize = "BLOCK_16X16" -> "TX_16X16"
      [] OTHER -> "TX_32X32"

UvTxSizeOf(bsize) ==
    CASE bsize \in {"BLOCK_4X4", "BLOCK_8X8"} -> "TX_4X4"
      [] bsize = "BLOCK_16X16" -> "TX_8X8"
      [] bsize = "BLOCK_32X32" -> "TX_16X16"
      [] OTHER -> "TX_32X32"

tx_width_mi(tx_size) ==
    CASE tx_size = "TX_4X4" -> 1
      [] tx_size = "TX_8X8" -> 2
      [] tx_size = "TX_16X16" -> 4
      [] OTHER -> 8

\* The transform type encode_block settles on: the outcome of
\* rdo_tx_type_decision when it is consulted, DCT_DCT otherwise.  The set
\* type of the block comes from get_ext_tx_set_type, so at speed <= 3 either
\* branch may be the one taken.
TxTypeChoices(f) == IF f.speed <= 3 THEN RdoTxTypes ELSE {"DCT_DCT"}

uv_intra_mode_to_tx_type_context(chroma_mode) == "DCT_DCT"

Sym(op, bo, bsize, arg) ==
    [op |-> op, x |-> bo.x, y |-> bo.y, bsize |-> bsize, arg |-> arg]

TxOp(p, tx_bo, mode, tx_size, tx_type, px, py, skip) ==
    [op |-> "encode_tx_block", p |-> p, x |-> tx_bo.x, y |-> tx_bo.y, mode |-> mode,
     tx_size |-> tx_size, tx_type |-> tx_type, px |-> px, py |-> py, skip |-> skip]

BoolStr(b) == IF b THEN "true" ELSE "false"

\* The encode_tx_block calls of write_tx_blocks, in order.
write_tx_blocks(f, luma_mode, chroma_mode, bo, bsize, tx_size, tx_type, skip) ==
    LET bw == width_mi(bsize) \div tx_width_mi(tx_size)
        bh == width_mi(bsize) \div tx_width_mi(tx_size)
        luma == [i \in 1..(bw * bh) |->
                    LET bx == (i - 1) % bw
                        by == (i - 1) \div bw
                        tx_bo == BO(bo.x + bx * tx_width_mi(tx_size),
                                    bo.y + by * tx_width_mi(tx_size))
                    IN  TxOp(0, tx_bo, luma_mode, tx_size, tx_type,
                             tx_bo.x * 4, tx_bo.y * 4, skip)]
        uv_tx_size == UvTxSizeOf(bsize)
        bw_uv0 == (bw * tx_width_mi(tx_size)) \div Pow2(xdec)
        bh_uv0 == (bh * tx_width_mi(tx_size)) \div Pow2(ydec)
        round_up == (bw_uv0 = 0 \/ bh_uv0 = 0) /\ has_chroma(bo, bsize, xdec, ydec)
        bw_uv == (IF round_up THEN 1 ELSE bw_uv0) \div tx_width_mi(uv_tx_size)
        bh_uv == (IF round_up THEN 1 ELSE bh_uv0) \div tx_width_mi(uv_tx_size)
        uv_tx_type == uv_intra_mode_to_tx_type_context(chroma_mode)
        partition_x == ((bo.x % 16) \div Pow2(xdec)) * 4
        partition_y == ((bo.y % 16) \div Pow2(ydec)) * 4
        sb_offset_x == ((bo.x \div 16) * 64) \div Pow2(xdec)
        sb_offset_y == ((bo.y \div 16) * 64) \div Pow2(ydec)
        n_uv == bw_uv * bh_uv
        chroma == [i \in 1..(2 * n_uv) |->
                    LET p == 1 + (i - 1) \div n_uv
                        k == (i - 1) % n_uv
                        bx == k % bw_uv
                        by == k \div bw_uv
                        tx_bo == BO(bo.x + (bx * tx_width_mi(uv_tx_size)) * Pow2(xdec)
                                        - (IF bw * tx_width_mi(tx_size) = 1 THEN 1 ELSE 0),
                                    bo.y + (by * tx_width_mi(uv_tx_size)) * Pow2(ydec)
                                        - (IF bh * tx_width_mi(tx_size) = 1 THEN 1 ELSE 0))
                    IN  TxOp(p, tx_bo, chroma_mode, uv_tx_size, uv_tx_type,
                             sb_offset_x + partition_x + bx * tx_width_mi(uv_tx_size) * 4,
                             sb_offset_y + partition_y + by * tx_width_mi(uv_tx_size) * 4,
                             skip)]
    IN  luma \o (IF bw_uv > 0 /\ bh_uv > 0 THEN chroma ELSE <<>>)

\* Every ContextWriter operation and transform block of encode_block, in
\* order.  Only intra modes are searched, so is_inter is false.
encode_block(f, luma_mode, chroma_mode, bsize, bo, skip, tx_type) ==
    LET is_inter == FALSE
        chroma_here == has_chroma(bo, bsize, xdec, ydec)
    IN  << Sym("set_skip", bo, bsize, BoolStr(skip)),
           Sym("write_skip", bo, bsize, BoolStr(skip)) >>
        \o (IF f.frame_type = "INTER"
            THEN << Sym("write_is_inter", bo, bsize, BoolStr(is_inter)) >>
                 \o (IF ~is_inter
                     THEN << Sym("write_intra_mode", bo, bsize, luma_mode) >>
                     ELSE <<>>)
            ELSE << Sym("write_intra_mode_kf", bo, bsize, luma_mode) >>)
        \o << Sym("set_mode", bo, bsize, luma_mode) >>
        \o (IF is_directional(luma_mode) /\ BsGe(bsize, "BLOCK_8X8")
            THEN << Sym("write_angle_delta", bo, bsize, luma_mode) >> ELSE <<>>)
        \o (IF chroma_here
            THEN << Sym("write_intra_uv_mode", bo, bsize, chroma_mode) >>
                 \o (IF is_directional(chroma_mode) /\ BsGe(bsize, "BLOCK_8X8")
                     THEN << Sym("write_angle_delta", bo, bsize, chroma_mode) >> ELSE <<>>)
            ELSE <<>>)
        \o (IF skip THEN << Sym("reset_skip_context", bo, bsize, "") >> ELSE <<>>)
        \o write_tx_blocks(f, luma_mode, chroma_mode, bo, bsize, TxSizeOf(bsize), tx_type, skip)

\* What a finished leaf leaves in the committed syntax.
Leaf(bo, bsize) == Sym("encode_block", bo, bsize, "")

WritePartition(bo, partition, bsize) ==
    IF BsGe(bsize, "BLOCK_8X8")
    THEN << Sym("write_partition", bo, bsize, partition) >> ELSE <<>>

UpdatePartitionContext_mut(bo, partition, bsize) ==
    IF BsGe(bsize, "BLOCK_8X8") /\ partition # "PARTITION_SPLIT"
    THEN << Sym("update_partition_context", bo, bsize, get_subsize(bsize, partition)) >>
    ELSE <<>>

UpdatePartitionContext(bo, partition, bsize) ==
    IF BsGe(bsize, "BLOCK_8X8") /\ (bsize = "BLOCK_8X8" \/ partition # "PARTITION_SPLIT")
    THEN << Sym("update_partition_context", bo, bsize, get_subsize(bsize, partition)) >>
    ELSE <<>>

\* A call of a walker: its arguments and its locals.
Call(fn, bsize, bo, block_output) ==
    [fn |-> fn, bsize |-> bsize, bo |-> bo, block_output |-> block_output,
     pc |-> "call", next |-> 1, partition |-> "PARTITION_NONE", must_split |-> FALSE,
     rdo_output |-> DefaultOutput, rd_cost |-> F64_MAX, nosplit_rd_cost |-> F64_MAX,
     best_decision |-> DefaultDecision(bo), checkpoint |-> 0]

Top == stack[Len(stack)]

\* The callee returns: a bottom-up caller assigns the first child's cost to
\* rd_cost and adds the costs of the other three.
Return(stk, ret) ==
    LET rest == SubSeq(stk, 1, Len(stk) - 1) IN
    IF Len(rest) = 0 THEN rest
    ELSE IF rest[Len(rest)].fn = "encode_partition_bottomup"
    THEN [rest EXCEPT ![Len(rest)].rd_cost =
              IF rest[Len(rest)].next = 2 THEN ret ELSE FAdd(@, ret)]
    ELSE rest

\* The committed syntax after cw.rollback(checkpoint).
Rollback_mut(log, checkpoint) == log

Rollback(log, checkpoint) == SubSeq(log, 1, checkpoint)

\* What a returning call reports: its committed partition and its cost.
Ret(t, partition, rd_cost) ==
    [op |-> "return", fn |-> t.fn, x |-> t.bo.x, y |-> t.bo.y, bsize |-> t.bsize,
     arg |-> partition, rd_cost |-> rd_cost, nosplit_rd_cost |-> t.nosplit_rd_cost,
     must_split |-> t.must_split, checkpoint |-> t.checkpoint]

OutOfGrid(f, bo) == bo.x >= f.w_in_b \/ bo.y >= f.h_in_b

\* The partition encode_partition_topdown settles on, with the rdo_output
\* it goes on with and whether rdo_partition_decision was called.
topdown_partition_mut(f, bsize, bo, block_output) ==
    LET rdo_output == IF Len(block_output) = 0 THEN DefaultOutput ELSE block_output[1] IN
    IF must_split(f, bsize, bo)
    THEN { [partition |-> "PARTITION_SPLIT", rdo_output |-> rdo_output, rdo |-> FALSE] }
    ELSE IF BsGe(bsize, f.min_partition_size) /\ bsize # "BLOCK_4X4"
    THEN { [partition |-> o.part_type, rdo_output |-> o, rdo |-> TRUE] :
             o \in rdo_partition_decision(f, bsize, bo, rdo_output) }
    ELSE { [partition |-> "PARTITION_NONE", rdo_output |-> rdo_output, rdo |-> FALSE] }

topdown_partition(f, bsize, bo, block_output) ==
    LET rdo_output == IF Len(block_output) = 0 THEN DefaultOutput ELSE block_output[1] IN
    IF must_split(f, bsize, bo)
    THEN { [partition |-> "PARTITION_SPLIT", rdo_output |-> rdo_output, rdo |-> FALSE] }
    ELSE IF BsGt(bsize, f.min_partition_size)
    THEN { [partition |-> o.part_type, rdo_output |-> o, rdo |-> TRUE] :
             o \in rdo_partition_decision(f, bsize, bo, rdo_output) }
    ELSE { [partition |-> "PARTITION_NONE", rdo_output |-> rdo_output, rdo |-> FALSE] }

\* encode_partition_topdown, from its entry to its first recursive call or,
\* for a block out of the grid or coded whole, to its return.
TopdownEnter ==
    /\ wk.status = "tile" /\ Len(stack) > 0
    /\ Top.fn = "encode_partition_topdown" /\ Top.pc = "call"
    /\ LET t == Top
           bsize == Top.bsize
           bo == Top.bo
       IN  IF OutOfGrid(fi, bo)
           THEN /\ stack' = Return(stack, 0)
                /\ ev' = << Ret(t, "out_of_grid", 0) >>
                /\ cw' = cw
           ELSE \E c \in topdown_partition(fi, bsize, bo, t.block_output) :
                  LET ms == must_split(fi, bsize, bo)
                      called == IF c.rdo
                                THEN << Sym("rdo_partition_decision", bo, bsize, c.partition) >>
                                ELSE <<>>
                      known == Len(c.rdo_output.part_modes) > 0
                  IN  IF c.partition = "PARTITION_NONE"
                      THEN \E part_decision \in (IF known THEN { c.rdo_output.part_modes[1] }
                                                 ELSE rdo_mode_decision(bsize, bo)),
                              tx_type \in TxTypeChoices(fi) :
                             /\ ev' = called
                                      \o WritePartition(bo, c.partition, bsize)
                                      \o (IF known THEN <<>>
                                          ELSE << Sym("rdo_mode_decision", bo, bsize, "") >>)
                                      \o encode_block(fi, part_decision.pred_mode_luma,
                                                      part_decision.pred_mode_chroma, bsize, bo,
                                                      part_decision.skip, tx_type)
                                      \o UpdatePartitionContext(bo, c.partition, bsize)
                                      \o << Ret([t EXCEPT !.must_split = ms], c.partition, 0) >>
                             /\ cw' = cw \o WritePartition(bo, c.partition, bsize)
                                         \o << Leaf(bo, bsize) >>
                                         \o UpdatePartitionContext(bo, c.partition, bsize)
                             /\ stack' = Return(stack, 0)
                      ELSE /\ ev' = called \o WritePartition(bo, c.partition, bsize)
                           /\ cw' = cw \o WritePartition(bo, c.partition, bsize)
                           /\ stack' = [stack EXCEPT ![Len(stack)] =
                                           [t EXCEPT !.pc = "split", !.partition = c.partition,
                                                     !.must_split = ms,
                                                     !.rdo_output = c.rdo_output]]
    /\ UNCHANGED <<fi, made, header, txVars, drvVars, wk, tile>>

\* The children a split block of the top-down walker recurses into: one per
\* cached sub-block decision when there are at least four, the four
\* quadrants otherwise.
TopdownChildren(t) ==
    IF Len(t.rdo_output.part_modes) >= 4 THEN Len(t.rdo_output.part_modes) ELSE 4

\* encode_partition_topdown calls itself on the next sub-block.
TopdownRecurse ==
    /\ wk.status = "tile" /\ Len(stack) > 0
    /\ Top.fn = "encode_partition_topdown" /\ Top.pc = "split"
    /\ Top.next <= TopdownChildren(Top)
    /\ LET t == Top
           subsize == get_subsize(t.bsize, t.partition)
           hbs == width_mi(t.bsize) \div 2
           child == IF Len(t.rdo_output.part_modes) >= 4
                    THEN LET mode == t.rdo_output.part_modes[t.next] IN
                         Call("encode_partition_topdown", subsize, mode.bo,
                              << [part_type |-> "PARTITION_NONE", rd_cost |-> mode.rd_cost,
                                  part_modes |-> << mode >>] >>)
                    ELSE Call("encode_partition_topdown", subsize,
                              QuadOffsets(t.bo, hbs)[t.next], <<>>)
       IN  stack' = Append([stack EXCEPT ![Len(stack)].next = @ + 1], child)
    /\ ev' = << Sym("call", Top.bo, Top.bsize, "") >>
    /\ UNCHANGED <<fi, made, header, txVars, drvVars, wk, cw, tile>>

\* encode_partition_topdown returns from a split block.
TopdownFinish ==
    /\ wk.status = "tile" /\ Len(stack) > 0
    /\ Top.fn = "encode_partition_topdown" /\ Top.pc = "split"
    /\ Top.next > TopdownChildren(Top)
    /\ ev' = UpdatePartitionContext(Top.bo, Top.partition, Top.bsize)
             \o << Ret(Top, Top.partition, 0) >>
    /\ cw' = cw \o UpdatePartitionContext(Top.bo, Top.partition, Top.bsize)
    /\ stack' = Return(stack, 0)
    /\ UNCHANGED <<fi, made, header, txVars, drvVars, wk, tile>>

\* encode_partition_bottomup, from its entry to its first recursive call or,
\* for a block out of the grid or one that cannot split, to its return.
BottomupEnter ==
    /\ wk.status = "tile" /\ Len(stack) > 0
    /\ Top.fn = "encode_partition_bottomup" /\ Top.pc = "call"
    /\ LET t == Top
           bsize == Top.bsize
           bo == Top.bo
           ms == must_split(fi, bsize, bo)
           can_split == BsGt(bsize, fi.min_partition_size) \/ ms
           checkpoint == Len(cw)
       IN  IF OutOfGrid(fi, bo)
           THEN /\ stack' = Return(stack, F64_MAX)
                /\ ev' = << Ret(t, "out_of_grid", F64_MAX) >>
                /\ cw' = cw
           ELSE \E mode_decision \in (IF ms THEN { DefaultDecision(bo) }
                                      ELSE rdo_mode_decision(bsize, bo)),
                   tx_type \in (IF ms THEN {"DCT_DCT"} ELSE TxTypeChoices(fi)) :
                  LET rd_cost == mode_decision.rd_cost
                      whole_ev == IF ms THEN <<>>
                                  ELSE WritePartition(bo, "PARTITION_NONE", bsize)
                                       \o << Sym("rdo_mode_decision", bo, bsize, "") >>
                                       \o encode_block(fi, mode_decision.pred_mode_luma,
                                                       mode_decision.pred_mode_chroma, bsize,
                                                       bo, mode_decision.skip, tx_type)
                      whole_cw == IF ms THEN <<>>
                                  ELSE WritePartition(bo, "PARTITION_NONE", bsize)
                                       \o << Leaf(bo, bsize) >>
                      t1 == [t EXCEPT !.must_split = ms, !.rd_cost = rd_cost,
                                      !.best_decision = mode_decision,
                                      !.checkpoint = checkpoint]
                  IN  IF can_split
                      THEN /\ ev' = << Sym("checkpoint", bo, bsize, "") >> \o whole_ev
                                    \o << Sym("rollback", bo, bsize, "") >>
                                    \o WritePartition(bo, "PARTITION_SPLIT", bsize)
                           /\ cw' = Rollback(cw \o whole_cw, checkpoint)
                                    \o WritePartition(bo, "PARTITION_SPLIT", bsize)
                           /\ stack' = [stack EXCEPT ![Len(stack)] =
                                           [t1 EXCEPT !.pc = "split",
                                                      !.partition = "PARTITION_SPLIT",
                                                      !.nosplit_rd_cost = rd_cost]]
                      ELSE /\ ev' = << Sym("checkpoint", bo, bsize, "") >> \o whole_ev
                                    \o UpdatePartitionContext(bo, "PARTITION_NONE", bsize)
                                    \o << Ret(t1, "PARTITION_NONE", rd_cost) >>
                           /\ cw' = cw \o whole_cw
                                       \o UpdatePartitionContext(bo, "PARTITION_NONE", bsize)
                           /\ stack' = Return(stack, rd_cost)
    /\ UNCHANGED <<fi, made, header, txVars, drvVars, wk, tile>>

\* encode_partition_bottomup calls itself on the next quadrant.
BottomupRecurse ==
    /\ wk.status = "tile" /\ Len(stack) > 0
    /\ Top.fn = "encode_partition_bottomup" /\ Top.pc = "split"
    /\ Top.next <= 4
    /\ LET t == Top
           subsize == get_subsize(t.bsize, t.partition)
           hbs == width_mi(t.bsize) \div 2
       IN  stack' = Append([stack EXCEPT ![Len(stack)].next = @ + 1],
                           Call("encode_partition_bottomup", subsize,
                                QuadOffsets(t.bo, hbs)[t.next], <<>>))
    /\ ev' = << Sym("call", Top.bo, Top.bsize, "") >>
    /\ UNCHANGED <<fi, made, header, txVars, drvVars, wk, cw, tile>>

\* The local partition at the end of a block that tried the split: NONE if
\* the whole block was recoded, the SPLIT assigned before the recursion
\* otherwise.
final_partition_mut(t) == t.partition

final_partition(t) ==
    IF ~t.must_split /\ t.nosplit_rd_cost < t.rd_cost THEN "PARTITION_NONE" ELSE t.partition

\* encode_partition_bottomup, after its fourth recursive call: it recodes the
\* whole block if that is more efficient, and returns rd_cost.
BottomupFinish ==
    /\ wk.status = "tile" /\ Len(stack) > 0
    /\ Top.fn = "encode_partition_bottomup" /\ Top.pc = "split"
    /\ Top.next > 4
    /\ LET t == Top
           recode == ~t.must_split /\ t.nosplit_rd_cost < t.rd_cost
           partition == final_partition(t)
       IN  \E tx_type \in (IF recode THEN TxTypeChoices(fi) ELSE {"DCT_DCT"}) :
             /\ ev' = (IF recode
                       THEN << Sym("rollback", t.bo, t.bsize, "") >>
                            \o WritePartition(t.bo, partition, t.bsize)
                            \o encode_block(fi, t.best_decision.pred_mode_luma,
                                            t.best_decision.pred_mode_chroma, t.bsize, t.bo,
                                            t.best_decision.skip, tx_type)
                       ELSE <<>>)
                      \o UpdatePartitionContext(t.bo, partition, t.bsize)
                      \o << Ret(t, partition, t.rd_cost) >>
             /\ cw' = (IF recode
                       THEN Rollback(cw, t.checkpoint)
                            \o WritePartition(t.bo, partition, t.bsize)
                            \o << Leaf(t.bo, t.bsize) >>
                       ELSE cw)
                      \o UpdatePartitionContext(t.bo, partition, t.bsize)
             /\ stack' = Return(stack, t.rd_cost)
    /\ UNCHANGED <<fi, made, header, txVars, drvVars, wk, tile>>

\* encode_tile starts on the next superblock, resetting the left contexts at
\* the start of a superblock row.
EncodeSuperBlock ==
    /\ wk.status = "tile" /\ Len(stack) = 0
    /\ wk.sby < fi.sb_height
    /\ LET bo == BO(wk.sbx * 16, wk.sby * 16) IN
       /\ ev' = (IF wk.sbx = 0
                 THEN << Sym("reset_left_contexts", bo, "BLOCK_64X64", "") >> ELSE <<>>)
                \o << Sym("superblock", bo, "BLOCK_64X64", "") >>
       /\ stack' = << Call(IF fi.speed = 0 THEN "encode_partition_bottomup"
                           ELSE "encode_partition_topdown", "BLOCK_64X64", bo, <<>>) >>
    /\ wk' = IF wk.sbx + 1 = fi.sb_width
             THEN [wk EXCEPT !.sbx = 0, !.sby = @ + 1]
             ELSE [wk EXCEPT !.sbx = @ + 1]
    /\ UNCHANGED <<fi, made, header, txVars, drvVars, cw, tile>>

\* encode_tile finishes the entropy coder and appends the trailing zero.
EncodeTileDone ==
    /\ wk.status = "tile" /\ Len(stack) = 0
    /\ wk.sby = fi.sb_height
    /\ wk' = [wk EXCEPT !.status = "done"]
    /\ tile' = [payload |-> cw, last |-> 0]
    /\ ev' = << Sym("done", BO(0, 0), "BLOCK_64X64", "") >>
    /\ UNCHANGED <<fi, made, header, txVars, drvVars, stack, cw>>

Init ==
    /\ \E c \in WalkConfigs, t \in WalkFrameTypes :
          fi = [FrameInvariantsNew(c[1], c[2], 100, c[3]) EXCEPT !.frame_type = t]
    /\ made = TRUE
    /\ header = NoHeader
    /\ TxIdle
    /\ DrvIdle
    /\ wk = [status |-> "tile", sbx |-> 0, sby |-> 0]
    /\ stack = <<>>
    /\ cw = <<>>
    /\ ev = <<>>
    /\ tile = NoTile

Next ==
    \/ EncodeSuperBlock
    \/ TopdownEnter
    \/ TopdownRecurse
    \/ TopdownFinish
    \/ BottomupEnter
    \/ BottomupRecurse
    \/ BottomupFinish
    \/ EncodeTileDone

Spec == Init /\ [][Next]_vars

(***************************************************************************)
(* Properties of the constructor and of the header writer.                 *)
(***************************************************************************)
FieldNames(fields) == [i \in 1..Len(fields) |-> fields[i].name]
HasField(fields, n) == \E i \in 1..Len(fields) : fields[i].name = n
FirstPos(fields, n) == CHOOSE i \in 1..Len(fields) :
    fields[i].name = n /\ \A j \in 1..(i - 1) : fields[j].name # n
LastPos(fields, n) == CHOOSE i \in 1..Len(fields) :
    fields[i].name = n /\ \A j \in (i + 1)..Len(fields) : fields[j].name # n
\* Every field named a is written before every field named b.
Before(fields, a, b) ==
    HasField(fields, a) /\ HasField(fields, b) /\ LastPos(fields, a) < FirstPos(fields, b)
\* The names of the fields written after the field `from` and up to `to`.
Between(fields, from, to) ==
    SubSeq(FieldNames(fields), FirstPos(fields, from) + 1, FirstPos(fields, to))

HeaderWritten == header.status # "none"
InterNotIntraOnly ==
    /\ HeaderWritten /\ header.status = "ok"
    /\ fi.frame_type = "INTER" /\ ~fi.intra_only /\ ~fi.show_existing_frame

\* C3 as stated: in the header of an INTER frame that is not intra_only the
\* frame-setup bits come before refresh_frame_flags and the ref_frame slots,
\* and the interp-filter bits come before the high-precision-MV flag, which
\* comes before the reference-MV bit and the frame context.
C3_Original ==
    InterNotIntraOnly =>
        /\ Before(header.fields, "superres", "refresh_frame_flags")
        /\ Before(header.fields, "scaling_active", "ref_frame")
        /\ Before(header.fields, "interp_filter", "allow_high_precision_mv")
        /\ Before(header.fields, "allow_high_precision_mv", "frame_context")
        /\ (HasField(header.fields, "use_ref_frame_mvs") =>
               Before(header.fields, "allow_high_precision_mv", "use_ref_frame_mvs"))

\* C3 amended: after the no-override-size bit the header of an INTER frame
\* that is not intra_only holds, in this order, refresh_frame_flags, the
\* seven ref_frame slots, the two frame-setup bits, the high-precision-MV
\* flag, the interp-filter bits, the reference-MV bit (only when
\* error_resilient is false) and the 3-bit frame context.
C3_InterFieldOrder ==
    InterNotIntraOnly =>
        Between(header.fields, "override_frame_size", "frame_context") =
            << "refresh_frame_flags",
               "ref_frame", "ref_frame", "ref_frame", "ref_frame", "ref_frame", "ref_frame", "ref_frame",
               "superres", "scaling_active",
               "allow_high_precision_mv",
               "interp_filter_switchable", "interp_filter" >> \o
            (IF fi.error_resilient THEN <<>> ELSE << "use_ref_frame_mvs" >>) \o
            << "frame_context" >>

C3_Witness ==
    /\ InterNotIntraOnly
    /\ ~fi.error_resilient
    /\ HasField(header.fields, "use_ref_frame_mvs")
    /\ Before(header.fields, "ref_frame", "superres")

\* C4 as stated: a KEY or INTRA_ONLY frame has intra_only set, also as
\* returned by FrameInvariants::new, so the header of a freshly constructed
\* frame is written without tripping the assertion.
C4_Original ==
    (fi # NoFI /\ made) =>
        /\ (fi.frame_type \in {"KEY", "INTRA_ONLY"} => fi.intra_only)
        /\ (HeaderWritten => header.status = "ok")

\* C5: min_partition_size is 4x4 at speeds 0 and 1, 8x8 at speed 2, 16x16 at
\* speed 3 and 32x32 at every speed from 4 on, whatever the other arguments.
C5_Ladder ==
    made =>
        /\ (fi.speed \in {0, 1} => fi.min_partition_size = "BLOCK_4X4")
        /\ (fi.speed = 2 => fi.min_partition_size = "BLOCK_8X8")
        /\ (fi.speed = 3 => fi.min_partition_size = "BLOCK_16X16")
        /\ (fi.speed >= 4 => fi.min_partition_size = "BLOCK_32X32")

C5_Witness ==
    /\ made /\ fi.speed = 3 /\ fi.min_partition_size = "BLOCK_16X16"
    /\ fi.width = 130 /\ fi.height = 70 /\ fi.qindex = 255

\* n rounded up to the next multiple of m, and n/m rounded up, stated
\* without the bit tricks of the code.
IsRoundedUp(r, n, m) == r % m = 0 /\ r >= n /\ r - n < m
IsCeilDiv(q, n, m) == q * m >= n /\ q * m - n < m

\* C10: padded_w and padded_h are the dimensions rounded up to a multiple
\* of 8, sb_width and sb_height are ceil(dimension / 64), w_in_b and h_in_b
\* are a quarter of the padded dimensions and even; 130x70 gives 136 and 72.
C10_Geometry ==
    made =>
        /\ IsRoundedUp(fi.padded_w, fi.width, 8)
        /\ IsRoundedUp(fi.padded_h, fi.height, 8)
        /\ IsCeilDiv(fi.sb_width, fi.width, 64)
        /\ IsCeilDiv(fi.sb_height, fi.height, 64)
        /\ fi.w_in_b * 4 = fi.padded_w /\ fi.w_in_b % 2 = 0
        /\ fi.h_in_b * 4 = fi.padded_h /\ fi.h_in_b % 2 = 0
        /\ (fi.width = 130 /\ fi.height = 70 => fi.padded_w = 136 /\ fi.padded_h = 72)

C10_Witness ==
    /\ made /\ fi.width = 130 /\ fi.height = 70
    /\ fi.padded_w = 136 /\ fi.padded_h = 72
    /\ fi.sb_width = 3 /\ fi.sb_height = 2 /\ fi.w_in_b = 34 /\ fi.h_in_b = 18

SomeRef(lo, modes) ==
    \E i \in lo..ALTREF_FRAME : fi.globalmv_transformation_type[i] \in modes

\* C9 as stated: a ROTZOOM or AFFINE reference makes the header writer abort
\* for every frame type and every value of intra_only and
\* show_existing_frame.
C9_Original ==
    (HeaderWritten /\ SomeRef(0, {"ROTZOOM", "AFFINE"})) => header.status = "abort"

\* C9 amended: a ROTZOOM or AFFINE mode of one of the references
\* LAST_FRAME..ALTREF_FRAME makes the header writer abort when
\* show_existing_frame and intra_only are both false; with
\* show_existing_frame set the header is written whatever the modes, and
\* with intra_only set no global motion field is written.
C9_AbortsWhenConsulted ==
    HeaderWritten =>
        /\ (SomeRef(LAST_FRAME, {"ROTZOOM", "AFFINE"}) /\ ~fi.show_existing_frame /\ ~fi.intra_only
               => header.status = "abort")
        /\ (fi.show_existing_frame => header.status = "ok")
        /\ (fi.intra_only \/ fi.show_existing_frame
               => ~HasField(header.fields, "gm_not_identity"))

C9_Witness ==
    /\ HeaderWritten /\ header.status = "abort"
    /\ fi.frame_type = "INTER" /\ fi.show_frame /\ ~fi.intra_only /\ ~fi.show_existing_frame
    /\ SomeRef(LAST_FRAME, {"ROTZOOM"})
    /\ HasField(header.fields, "gm_rotzoom")

(***************************************************************************)
(* Properties of the transform-block pipeline.                             *)
(***************************************************************************)
InTxRegion(call, p, c) ==
    p = call.p /\ (c - 1) \in TxRegion(call.po, call.tx_size)

\* C1: a call of encode_tx_block with skip = true runs the predictor and
\* nothing else: no coefficient is written to the ContextWriter, and rec
\* changes only in the block at po of plane p, which holds the predictor's
\* output computed from rec as it was before the call.
C1_SkipRunsPredictorOnly ==
    [][ (tx_call'.steps # <<>> /\ tx_call'.skip) =>
            /\ tx_call'.steps = << "predict" >>
            /\ tx_cw' = tx_cw
            /\ tx_call'.pred = predict(tx_call'.mode, tx_rec[tx_call'.p + 1], tx_call'.po)
            /\ \A p \in TxPlanes : \A c \in 1..PlaneCells(p) :
                   tx_rec'[p + 1][c] = IF InTxRegion(tx_call', p, c)
                                          THEN tx_call'.pred
                                          ELSE tx_rec[p + 1][c] ]_vars

\* A skipped TX_8X8 luma block after coefficients were written elsewhere:
\* both cells hold the prediction, which is not the input.
C1_Witness ==
    /\ tx_call.steps = << "predict" >> /\ tx_call.skip
    /\ tx_call.p = 0 /\ tx_call.tx_size = "TX_8X8" /\ tx_call.mode = "V_PRED"
    /\ tx_rec[1] = << tx_call.pred, tx_call.pred >>
    /\ tx_rec[1] # tx_input[1]
    /\ tx_cw = MaxCoeffWrites

(***************************************************************************)
(* Properties of the frame driver.                                         *)
(***************************************************************************)
LastPacket == ivf[Len(ivf)].data
StepPos(steps, name) == CHOOSE i \in 1..Len(steps) : steps[i] = name
HasStep(steps, name) == \E i \in 1..Len(steps) : steps[i] = name

\* The eight bits of a show_existing_frame header: marker 0b10, the 2-bit
\* profile, the flag 1 and slot 0 in 3 bits.
ShowExistingBits == << 1, 0 >> \o FieldBits(2, SequenceNew.profile) \o << 1 >> \o << 0, 0, 0 >>

\* C2: for a frame with show_existing_frame = true, encode_frame returns a
\* packet that is the header alone: marker 0b10, profile, flag 1, slot 0,
\* byte-aligned, at most 2 bytes; the tile encoder does not run and neither
\* tile bytes nor the 0x00 trailer are appended.
C2_ShowExistingHeaderOnly ==
    (drv.ret = "true" /\ fi.show_existing_frame) =>
        /\ header.status = "ok"
        /\ HeaderBits(header.fields) = ShowExistingBits
        /\ LastPacket.header = BitsToBytes(ShowExistingBits)
        /\ Len(LastPacket.header) <= 2
        /\ LastPacket.tile = <<>>
        /\ ~HasStep(drv.steps, "encode_tile")

C2_Witness ==
    /\ drv.ret = "true" /\ fi.show_existing_frame
    /\ fi.frame_type = "INTER" /\ fi.intra_only
    /\ Len(ivf) = 2
    /\ ivf[1].data.tile # <<>>
    /\ ivf[2].data = [header |-> << 136 >>, tile |-> <<>>]

\* C8: a normal frame sets last_rec to that frame's rec after its packet is
\* written; a show_existing_frame frame with last_rec present copies last_rec
\* into rec, emits the header only and leaves last_rec as it was; a call
\* whose read fails returns false, writes no IVF frame and leaves last_rec
\* unchanged.
C8_LastRecFollowsFrames ==
    [][ drv'.calls = drv.calls + 1 =>
          /\ (drv'.ret = "false" => last_rec' = last_rec /\ ivf' = ivf /\ y4m'.frames = y4m.frames)
          /\ (drv'.ret = "true" /\ ~fi'.show_existing_frame =>
                 /\ last_rec' = ReconFrame(y4m'.frames)
                 /\ last_rec' = fs_rec'
                 /\ y4m'.frames = y4m.frames + 1
                 /\ Len(ivf') = Len(ivf) + 1
                 /\ ivf'[Len(ivf')].data.tile # <<>>
                 /\ StepPos(drv'.steps, "write_ivf_frame") < StepPos(drv'.steps, "last_rec"))
          /\ (drv'.ret = "true" /\ fi'.show_existing_frame /\ last_rec.present =>
                 /\ fs_rec'.data = last_rec.data /\ fs_rec'.input = last_rec.input
                 /\ HasStep(drv'.steps, "copy_last_rec")
                 /\ last_rec' = last_rec
                 /\ Len(ivf') = Len(ivf) + 1
                 /\ ivf'[Len(ivf')].data.tile = <<>>) ]_vars

\* Two frames were read; the second was a show_existing_frame frame, and
\* last_rec still holds the reconstruction of the first.
C8_Witness ==
    /\ drv.calls = 2 /\ drv.ret = "true" /\ fi.show_existing_frame
    /\ y4m.frames = 2
    /\ last_rec = ReconFrame(1) /\ fs_rec = ReconFrame(1)
    /\ Len(ivf) = 2

(***************************************************************************)
(* Properties of the partition walkers.                                    *)
(***************************************************************************)
IsLeaf(e) == e.op = "encode_block"

\* The leaf at position i of the committed syntax covers the 4x4 cell (x, y).
Covers(i, x, y) ==
    /\ IsLeaf(cw[i])
    /\ cw[i].x <= x /\ x < cw[i].x + width_mi(cw[i].bsize)
    /\ cw[i].y <= y /\ y < cw[i].y + width_mi(cw[i].bsize)

Is64x64AtSpeed3 == fi.width = 64 /\ fi.height = 64 /\ fi.speed = 3

\* C6 as stated: for a 64x64 frame at speed 3 no PARTITION_SPLIT symbol is
\* written for the 64x64 block, and the finished tile holds one leaf, the
\* 64x64 block itself.
C6_Original ==
    Is64x64AtSpeed3 =>
        /\ \A i \in 1..Len(cw) :
              ~(cw[i].op = "write_partition" /\ cw[i].bsize = "BLOCK_64X64"
                /\ cw[i].arg = "PARTITION_SPLIT")
        /\ wk.status = "done" =>
              \E i \in 1..Len(cw) : cw[i] = Leaf(BO(0, 0), "BLOCK_64X64")

\* C6: for a 64x64 frame at speed 3 the first symbol of the tile is
\* PARTITION_SPLIT for the 64x64 block, every leaf is a 32x32 or a 16x16
\* block, and the leaves of the finished tile cover each 4x4 cell of the
\* superblock exactly once.
C6_SplitAt64x64 ==
    Is64x64AtSpeed3 =>
        /\ Len(cw) > 0 =>
              cw[1] = Sym("write_partition", BO(0, 0), "BLOCK_64X64", "PARTITION_SPLIT")
        /\ \A i \in 1..Len(cw) :
              IsLeaf(cw[i]) => cw[i].bsize \in {"BLOCK_32X32", "BLOCK_16X16"}
        /\ wk.status = "done" =>
              \A x \in 0..(fi.w_in_b - 1), y \in 0..(fi.h_in_b - 1) :
                 Cardinality({ i \in 1..Len(cw) : Covers(i, x, y) }) = 1

C6_Witness ==
    /\ Is64x64AtSpeed3
    /\ wk.status = "done"
    /\ \E i \in 1..Len(cw) : IsLeaf(cw[i]) /\ cw[i].bsize = "BLOCK_32X32"
    /\ \E i \in 1..Len(cw) : IsLeaf(cw[i]) /\ cw[i].bsize = "BLOCK_16X16"

\* The superblock at (sbx, sby) crosses the right or the bottom edge of the
\* mode-info grid.
CrossesEdge(sbx, sby) ==
    sbx * 16 + 16 > fi.w_in_b \/ sby * 16 + 16 > fi.h_in_b

\* C7 as stated: wherever min_partition_size is larger than BLOCK_4X4, a
\* superblock that crosses the right or the bottom edge of the frame is
\* subdivided down to BLOCK_4X4: the finished tile holds a 4x4 leaf in it.
C7_Original ==
    (wk.status = "done" /\ BsGt(fi.min_partition_size, "BLOCK_4X4")) =>
        \A sbx \in 0..(fi.sb_width - 1), sby \in 0..(fi.sb_height - 1) :
           CrossesEdge(sbx, sby) =>
              \E i \in 1..Len(cw) :
                 /\ IsLeaf(cw[i]) /\ cw[i].bsize = "BLOCK_4X4"
                 /\ cw[i].x \div 16 = sbx /\ cw[i].y \div 16 = sby

\* The last operation of the last step.
LastEv == ev[Len(ev)]

\* The last step ended with the return of encode_partition_bottomup from an
\* in-grid block.
BottomupReturned ==
    /\ Len(ev) > 0
    /\ LastEv.op = "return"
    /\ LastEv.fn = "encode_partition_bottomup"
    /\ LastEv.arg # "out_of_grid"

\* The 4x4 cells of the block of a return record that lie inside the grid.
CellsOf(r) ==
    { c \in (r.x..(r.x + width_mi(r.bsize) - 1)) \X (r.y..(r.y + width_mi(r.bsize) - 1)) :
        c[1] < fi.w_in_b /\ c[2] < fi.h_in_b }

IsPartitionOf(e, r) ==
    e.op = "write_partition" /\ e.x = r.x /\ e.y = r.y /\ e.bsize = r.bsize

\* C11: when encode_partition_bottomup returns from an in-grid block, what
\* the ContextWriter holds beyond the checkpoint taken at entry is one
\* variant only: the block's partition symbol comes first and once (none for
\* a 4x4 block) and names the committed partition; a NONE block is followed
\* by its own leaf, a SPLIT block by its children's syntax with no leaf of
\* its own; and the leaves cover every in-grid cell of the block exactly
\* once, so nothing of a discarded trial remains.
C11_OneVariantCommitted ==
    BottomupReturned =>
        LET r == LastEv
            from == r.checkpoint + 1
            own == { i \in from..Len(cw) : IsPartitionOf(cw[i], r) }
        IN  /\ r.checkpoint <= Len(cw)
            /\ IF BsGe(r.bsize, "BLOCK_8X8")
               THEN own = {from} /\ cw[from].arg = r.arg
               ELSE own = {}
            /\ LET first == IF BsGe(r.bsize, "BLOCK_8X8") THEN from + 1 ELSE from IN
               IF r.arg = "PARTITION_NONE"
               THEN cw[first] = Leaf(BO(r.x, r.y), r.bsize)
               ELSE \A i \in from..Len(cw) : cw[i] # Leaf(BO(r.x, r.y), r.bsize)
            /\ \A c \in CellsOf(r) :
                  Cardinality({ i \in from..Len(cw) : Covers(i, c[1], c[2]) }) = 1
            /\ \A i \in from..Len(cw) :
                  IsLeaf(cw[i]) => <<cw[i].x, cw[i].y>> \in CellsOf(r)

\* A block whose split variant was discarded: the walker rolled back a
\* second time and recoded the block whole.
C11_Witness ==
    /\ BottomupReturned
    /\ LastEv.arg = "PARTITION_NONE"
    /\ BsGe(LastEv.bsize, "BLOCK_8X8")
    /\ ev[1].op = "rollback"

\* The update_partition_context operations of the last step.
ContextUpdates == SelectSeq(ev, LAMBDA e : e.op = "update_partition_context")

\* C12: when encode_partition_bottomup returns from an in-grid block, its
\* local partition is PARTITION_SPLIT if and only if the variant left in
\* the writer is the split one (no leaf of the block itself beyond the
\* checkpoint), and PARTITION_NONE otherwise; update_partition_context is
\* guarded by, and given the subsize of, that committed partition.
C12_PartitionIsCommitted ==
    BottomupReturned =>
        LET r == LastEv
            split_kept == \A i \in (r.checkpoint + 1)..Len(cw) :
                             cw[i] # Leaf(BO(r.x, r.y), r.bsize)
            committed == IF split_kept THEN "PARTITION_SPLIT" ELSE "PARTITION_NONE"
        IN  /\ r.arg = committed
            /\ ContextUpdates =
                  (IF BsGe(r.bsize, "BLOCK_8X8") /\ (r.bsize = "BLOCK_8X8" \/ ~split_kept)
                   THEN << Sym("update_partition_context", BO(r.x, r.y), r.bsize,
                               get_subsize(r.bsize, committed)) >>
                   ELSE <<>>)

\* A block that was free to stay whole and kept its split.
C12_Witness ==
    /\ BottomupReturned
    /\ LastEv.arg = "PARTITION_SPLIT"
    /\ ~LastEv.must_split
    /\ LastEv.bsize = "BLOCK_8X8"

\* encode_partition_bottomup is about to return from a block that was free
\* to stay whole and has coded its four children: rd_cost holds the sum of
\* the children's costs and nosplit_rd_cost the cost of the whole block.
BottomupComparing ==
    /\ wk.status = "tile" /\ Len(stack) > 0
    /\ Top.fn = "encode_partition_bottomup" /\ Top.pc = "split" /\ Top.next > 4
    /\ ~Top.must_split

CostMin(a, b) == IF a < b THEN a ELSE b

\* C13 as stated: a block that is not must_split and can split returns the
\* cost of the variant it kept, the smaller of the cost of the whole block
\* and the sum of its four children's costs.
C13_Original ==
    [][BottomupComparing => LastEv'.rd_cost = CostMin(Top.nosplit_rd_cost, Top.rd_cost)]_vars

\* The arguments of the operations named op in a sequence of operations.
ArgsOf(seq, op) == { seq[i].arg : i \in { j \in 1..Len(seq) : seq[j].op = op } }
CountOf(seq, op) == Cardinality({ j \in 1..Len(seq) : seq[j].op = op })

\* encode_partition_topdown is about to be entered.
TopdownEntering ==
    /\ wk.status = "tile" /\ Len(stack) > 0
    /\ Top.fn = "encode_partition_topdown" /\ Top.pc = "call"

\* C14: on entry encode_partition_topdown returns with nothing written for a
\* block whose origin is outside the grid; for an in-grid block it writes
\* PARTITION_SPLIT without a partition RDO call when the block extends past
\* w_in_b or h_in_b or is 64x64; otherwise it calls rdo_partition_decision,
\* once, exactly when bsize > min_partition_size, and codes what it returns;
\* otherwise it codes the block whole without a partition RDO call.
C14_TopdownPriority ==
    [][TopdownEntering =>
        LET bsize == Top.bsize
            bo == Top.bo
            outside == bo.x >= fi.w_in_b \/ bo.y >= fi.h_in_b
            forced == \/ bo.x + width_mi(bsize) > fi.w_in_b
                      \/ bo.y + width_mi(bsize) > fi.h_in_b
                      \/ bsize = "BLOCK_64X64"
            rdo_calls == CountOf(ev', "rdo_partition_decision")
            whole == \E i \in 1..Len(cw') : i > Len(cw) /\ cw'[i] = Leaf(bo, bsize)
        IN  IF outside
            THEN cw' = cw /\ Len(ev') = 1 /\ ev'[1].op = "return"
            ELSE IF forced
            THEN /\ rdo_calls = 0
                 /\ ArgsOf(ev', "write_partition") = {"PARTITION_SPLIT"}
                 /\ ~whole
            ELSE IF BlockSizeOrd(bsize) > BlockSizeOrd(fi.min_partition_size)
            THEN /\ rdo_calls = 1
                 /\ ArgsOf(ev', "write_partition") = ArgsOf(ev', "rdo_partition_decision")
                 /\ whole <=> ArgsOf(ev', "rdo_partition_decision") = {"PARTITION_NONE"}
            ELSE /\ rdo_calls = 0
                 /\ ArgsOf(ev', "write_partition") \subseteq {"PARTITION_NONE"}
                 /\ whole
    ]_vars

\* rdo_partition_decision has just been called on an in-grid block and has
\* preferred the split.
C14_Witness ==
    /\ Len(stack) > 0
    /\ Top.fn = "encode_partition_topdown" /\ Top.pc = "split" /\ ~Top.must_split
    /\ ArgsOf(ev, "rdo_partition_decision") = {"PARTITION_SPLIT"}

\* The last step ended with the return of either walker from an in-grid
\* block.
WalkerReturned ==
    /\ Len(ev) > 0
    /\ LastEv.op = "return"
    /\ LastEv.arg # "out_of_grid"

\* The positions of the committed syntax that hold an
\* update_partition_context of the block at (x, y) of size bsize.
UpdatesOf(x, y, bsize) ==
    { i \in 1..Len(cw) : /\ cw[i].op = "update_partition_context"
                         /\ cw[i].x = x /\ cw[i].y = y /\ cw[i].bsize = bsize }

\* C15: when either walker returns from an in-grid block,
\* update_partition_context(bo, subsize, bsize) has been called for it
\* exactly once, as the last operation on the writer, with the subsize of the
\* committed partition, if bsize >= 8x8 and (bsize = 8x8 or the committed
\* partition is not SPLIT), and has not been called for it otherwise; and it
\* is not called for a block whose call has not returned yet.
C15_UpdatePartitionContext ==
    /\ \A k \in 1..Len(stack) :
          UpdatesOf(stack[k].bo.x, stack[k].bo.y, stack[k].bsize) = {}
    /\ WalkerReturned =>
          LET r == LastEv
              due == /\ BlockSizeOrd(r.bsize) >= BlockSizeOrd("BLOCK_8X8")
                     /\ (r.bsize = "BLOCK_8X8" \/ r.arg # "PARTITION_SPLIT")
          IN  IF due
              THEN /\ UpdatesOf(r.x, r.y, r.bsize) = { Len(cw) }
                   /\ cw[Len(cw)].arg = get_subsize(r.bsize, r.arg)
                   /\ CountOf(ev, "update_partition_context") = 1
                   /\ ev[Len(ev) - 1] = cw[Len(cw)]
              ELSE /\ UpdatesOf(r.x, r.y, r.bsize) = {}
                   /\ CountOf(ev, "update_partition_context") = 0

\* The top-down walker returns from an 8x8 block it has split: the one split
\* block whose partition context is updated.
C15_Witness ==
    /\ WalkerReturned
    /\ LastEv.fn = "encode_partition_topdown"
    /\ LastEv.bsize = "BLOCK_8X8"
    /\ LastEv.arg = "PARTITION_SPLIT"
    /\ UpdatesOf(LastEv.x, LastEv.y, LastEv.bsize) # {}

\* A walker is about to call itself on a sub-block of a split block.
Recursing ==
    /\ wk.status = "tile" /\ Len(stack) > 0
    /\ Top.pc = "split"
    /\ Top.next <= (IF Top.fn = "encode_partition_topdown" THEN TopdownChildren(Top) ELSE 4)

\* The position of the 4x4 cell (x, y) of a superblock when its quadrants are
\* visited top-left, top-right, bottom-left, bottom-right at every size.
RECURSIVE QuadIndex(_, _, _)
QuadIndex(x, y, half) ==
    IF half = 0 THEN 0
    ELSE (2 * ((y \div half) % 2) + ((x \div half) % 2)) * half * half
         + QuadIndex(x, y, half \div 2)

\* The position of the block at (x, y) in the tile: superblocks row by row,
\* quadrants in order within a superblock.
TileIndex(x, y) ==
    ((y \div 16) * fi.sb_width + (x \div 16)) * 256 + QuadIndex(x % 16, y % 16, 8)

LeafPositions == { i \in 1..Len(cw) : IsLeaf(cw[i]) }

\* C16: a split block has exactly four children and a walker calls itself on
\* them in the order top-left, top-right, bottom-left, bottom-right, each of
\* the next smaller size, in the bottom-up walker and on both paths of the
\* top-down walker; so the leaves of the tile are written in that order,
\* superblock by superblock.
C16_RasterOrder ==
    /\ [](\A i, j \in LeafPositions :
             i < j => TileIndex(cw[i].x, cw[i].y) < TileIndex(cw[j].x, cw[j].y))
    /\ [][Recursing =>
            LET t == Top
                hbs == width_mi(t.bsize) \div 2
                child == stack'[Len(stack')]
            IN  /\ t.next <= 4
                /\ Len(stack') = Len(stack) + 1
                /\ child.fn = t.fn
                /\ BlockSizeOrd(child.bsize) = BlockSizeOrd(t.bsize) - 1
                /\ child.bo.x = t.bo.x + (IF t.next \in {2, 4} THEN hbs ELSE 0)
                /\ child.bo.y = t.bo.y + (IF t.next \in {3, 4} THEN hbs ELSE 0)
       ]_vars

\* The top-down walker has just called itself on the bottom-left sub-block
\* with the decision rdo_partition_decision cached for it.
C16_Witness ==
    /\ Len(stack) >= 2
    /\ Top.fn = "encode_partition_topdown" /\ Top.pc = "call"
    /\ Len(Top.block_output) = 1
    /\ stack[Len(stack) - 1].next = 4
    /\ Top.bo.x = stack[Len(stack) - 1].bo.x
    /\ Top.bo.y > stack[Len(stack) - 1].bo.y

\* The positions of the last step's operations at which encode_block starts
\* (its first operation is set_skip) and at which a luma transform block is
\* coded.
EncodeBlockStarts == { i \in 1..Len(ev) : ev[i].op = "set_skip" }
LumaTxBlocks == { i \in 1..Len(ev) : ev[i].op = "encode_tx_block" /\ ev[i].p = 0 }

\* C17: every block handed to encode_block by either walker lies entirely
\* inside the mode-info grid and is no larger than 32x32, and is coded as
\* exactly one luma transform block, of the block's own size and at the
\* block's own offset.
C17_LeafInGridOneLumaTx ==
    \A i \in EncodeBlockStarts :
        LET b == ev[i] IN
        /\ b.x + width_mi(b.bsize) <= fi.w_in_b
        /\ b.y + width_mi(b.bsize) <= fi.h_in_b
        /\ BlockSizeOrd(b.bsize) <= BlockSizeOrd("BLOCK_32X32")
        /\ Cardinality(LumaTxBlocks) = 1
        /\ \A k \in LumaTxBlocks :
              /\ ev[k].x = b.x /\ ev[k].y = b.y
              /\ tx_width_mi(ev[k].tx_size) = width_mi(b.bsize)

\* encode_block has coded a 32x32 block at the right edge of the grid.
C17_Witness ==
    \E i \in EncodeBlockStarts :
        /\ ev[i].bsize = "BLOCK_32X32"
        /\ ev[i].x + width_mi(ev[i].bsize) = fi.w_in_b
        /\ \E k \in LumaTxBlocks : ev[k].tx_size = "TX_32X32"

\* The calls of encode_partition_bottomup that have coded the block whole (if
\* allowed to) and are working through its four children.
BottomupSplitting ==
    { k \in 1..Len(stack) :
        stack[k].fn = "encode_partition_bottomup" /\ stack[k].pc = "split" }

\* The block of a call has a child whose origin is outside the grid.
HasOutOfGridChild(t) ==
    \/ t.bo.x + width_mi(t.bsize) \div 2 >= fi.w_in_b
    \/ t.bo.y + width_mi(t.bsize) \div 2 >= fi.h_in_b

\* C18: in the bottom-up walker a block with a child outside the grid is
\* must_split and so is every ancestor of it; a block that is not must_split
\* holds only finite costs, for the whole block and for its children, so the
\* f64::MAX returned for an out-of-grid block never meets the comparison of
\* the whole block against the split.
C18_SentinelNeverCompared ==
    \A k \in BottomupSplitting :
        /\ HasOutOfGridChild(stack[k]) => \A j \in 1..k : stack[j].must_split
        /\ (stack[k].rd_cost >= F64_MAX \/ stack[k].nosplit_rd_cost >= F64_MAX)
              => stack[k].must_split
        /\ ~stack[k].must_split => \A j \in (k + 1)..Len(stack) :
              /\ stack[j].bo.x < fi.w_in_b /\ stack[j].bo.y < fi.h_in_b
              /\ stack[j].pc = "split" => ~stack[j].must_split

\* A bottom-up block at the bottom edge has summed its four children, two of
\* them outside the grid, and holds the inflated sum.
C18_Witness ==
    \E k \in BottomupSplitting :
        /\ stack[k].next > 4 /\ k = Len(stack)
        /\ stack[k].bo.y + width_mi(stack[k].bsize) > fi.h_in_b
        /\ stack[k].bo.x + width_mi(stack[k].bsize) <= fi.w_in_b
        /\ stack[k].bsize = "BLOCK_16X16"
        /\ stack[k].rd_cost = F64_INF

\* C19: the header writer aborts on one of its two assertions on intra_only,
\* right after the show_frame bit, for every FrameInvariants with
\* show_existing_frame = false, frame_type = INTRA_ONLY and show_frame = true,
\* whether intra_only is set or not.
C19_ShownIntraOnlyAborts ==
    (HeaderWritten /\ ~fi.show_existing_frame /\ fi.frame_type = "INTRA_ONLY" /\ fi.show_frame)
        => /\ header.status = "abort"
           /\ LastPos(header.fields, "show_frame") = Len(header.fields)

\* Both cases: the header of a shown INTRA_ONLY frame with intra_only set has
\* been attempted, and so has one with intra_only clear.
C19_Witness ==
    /\ HeaderWritten /\ header.status = "abort"
    /\ ~fi.show_existing_frame /\ fi.frame_type = "INTRA_ONLY" /\ fi.show_frame
    /\ fi.intra_only
    /\ ~HasField(header.fields, "error_resilient")

====
